---- MODULE Spec2Model ----
(***************************************************************************)
(* Model of retirement_simulator.py: the cross-field validation of the     *)
(* collected inputs, simulator() (one Monte Carlo run per iteration of its *)
(* while loop) and bankrupt_prob().                                        *)
(*                                                                         *)
(* Numbers typed by the user are kept as the digit strings the program     *)
(* keeps (sequences of digits) and are converted with int(), as the code   *)
(* does at every use.  A rate of a series is kept as the whole number of   *)
(* percent read from the data file; the decimal the program computes with  *)
(* is rate / RateDen.  int(x * (1 + rate)) is modelled by exact truncation *)
(* toward zero; for every rate used below and every x in -300000..300000   *)
(* the double-precision product truncates to the same integer.             *)
(***************************************************************************)
EXTENDS Integers, Sequences, FiniteSets

VARIABLES
    \* lines 51-73: the digit strings typed by the user
    start_value, withdrawal, min_years, most_likely_years, max_years, num_sim,
    \* line 157: the chosen return series; line 29: the inflation series
    returns, infl_rate,
    \* where the program is: validate, exit, while, years, append, returned,
    \* done, ZeroDivisionError
    pc,
    \* lines 90-92: simulator's accumulators
    sim_count, bankrupt_count, outcome,
    \* lines 95-117: the locals of one run; index counts the years processed
    investments, start_year, duration, lifespan_returns, lifespan_infl,
    index, withdrawal_infl, bankrupt,
    \* lines 96-98: the <<start_year, duration>> pairs drawn so far, in order
    draws,
    \* lines 140-150: what bankrupt_prob computes (odds in tenths of a percent)
    odds, average, minimum, maximum

inputs == <<start_value, withdrawal, min_years, most_likely_years, max_years,
            num_sim, returns, infl_rate>>
run == <<investments, start_year, duration, lifespan_returns, lifespan_infl,
         index, withdrawal_infl, bankrupt>>
stats == <<odds, average, minimum, maximum>>
vars == <<inputs, pc, sim_count, bankrupt_count, outcome, run, draws, stats>>

(* Bounds of the explored inputs. *)
MaxSims == 2
MaxYears == 3

(* read_to_list: a file line is a percentage, the rate is line / 100. *)
RateDen == 100
(* The bound of the year check, line 78. *)
YearLimit == 99

(***************************************************************************)
(* Conversions.                                                            *)
(***************************************************************************)
RECURSIVE int(_)
(* int(s) of a string of decimal digits. *)
int(s) ==
    IF Len(s) = 0 THEN 0
    ELSE 10 * int(SubSeq(s, 1, Len(s) - 1)) + s[Len(s)]

(* str.isdigit(): non-empty and every character a digit. *)
IsDigit(s) == Len(s) > 0 /\ \A k \in 1..Len(s) : s[k] \in 0..9

RECURSIVE Str(_)
(* The decimal literal a user types for n. *)
Str(n) == IF n < 10 THEN <<n>> ELSE Append(Str(n \div 10), n % 10)

(* int() of the real number n / d, d > 0: truncation toward zero. *)
Trunc(n, d) == IF n >= 0 THEN n \div d ELSE -((-n) \div d)

RECURSIVE Sum(_)
Sum(s) == IF Len(s) = 0 THEN 0 ELSE s[1] + Sum(Tail(s))

Min(s) == CHOOSE m \in {s[k] : k \in 1..Len(s)} : \A k \in 1..Len(s) : m <= s[k]
Max(s) == CHOOSE m \in {s[k] : k \in 1..Len(s)} : \A k \in 1..Len(s) : m >= s[k]

(***************************************************************************)
(* The inputs explored.                                                    *)
(***************************************************************************)
Const(n, v) == [k \in 1..n |-> v]

YearStrings == {Str(n) : n \in 0..MaxYears}
SimStrings == {Str(n) : n \in 0..MaxSims}

SeriesPairs ==
    { <<<<-100>>, <<0>>>>,
      <<<<50, -50>>, <<0, 50, -50>>>>,
      <<<<10, -200, -200>>, <<50>>>>,
      <<<<0, 25>>, <<-200>>>> }

GeneralInputs ==
    { [start_value |-> sv, withdrawal |-> w, min_years |-> lo,
       most_likely_years |-> mo, max_years |-> hi, num_sim |-> n,
       returns |-> sp[1], infl_rate |-> sp[2]] :
        sv \in {<<0>>, <<1, 0>>, <<1, 0, 0>>},
        w \in {<<0>>, <<4>>, <<3, 0>>},
        lo \in YearStrings, mo \in YearStrings, hi \in YearStrings,
        n \in SimStrings, sp \in SeriesPairs }

(* Retirement lengths around the limit of the year check.  5 a year out of *)
(* 100 at no return empties the portfolio in year 20 of the 97 or 98.      *)
BoundaryInputs ==
    { [start_value |-> <<1, 0, 0>>, withdrawal |-> <<5>>, min_years |-> lo,
       most_likely_years |-> mo, max_years |-> hi, num_sim |-> <<1>>,
       returns |-> <<0>>, infl_rate |-> <<0>>] :
        lo \in {<<0, 9, 7>>, <<9, 8>>},
        mo \in {<<9, 8>>, <<9, 9>>},
        hi \in {<<9, 8>>, <<9, 9>>, <<1, 0, 0>>} }

(* Guaranteed growth, no inflation: 10% a year on 100000, 1000 withdrawn. *)
GrowthInputs ==
    { [start_value |-> <<1, 0, 0, 0, 0, 0>>, withdrawal |-> <<1, 0, 0, 0>>,
       min_years |-> <<4>>, most_likely_years |-> <<5>>, max_years |-> <<6>>,
       num_sim |-> <<1>>,
       returns |-> Const(50, 10), infl_rate |-> Const(50, 0)] }

Inputs == GeneralInputs \cup BoundaryInputs \cup GrowthInputs

(***************************************************************************)
(* The lines of the program the actions are built from.                    *)
(***************************************************************************)
(* Lines 77-78: the years are accepted. *)
YearsOk ==
    /\ int(min_years) < int(most_likely_years)
    /\ int(most_likely_years) < int(max_years)
    /\ ~(int(max_years) > YearLimit)

WithdrawalOkLax == int(withdrawal) <= int(start_value)
(* Line 82: the withdrawal is accepted. *)
WithdrawalOk == int(withdrawal) < int(start_value)

LoopGuardOffByOne == sim_count <= int(num_sim)
(* Line 94: while sim_count < int(num_sim). *)
LoopGuard == sim_count < int(num_sim)

StartInvestmentsLeaked ==
    IF sim_count = 0 THEN int(start_value) ELSE investments
(* Line 95: investments = int(start_value), at the start of every run. *)
StartInvestments == int(start_value)

(* Lines 97-98: int(random.triangular(low, high, mode)); the sample lies in *)
(* [low, high), so its truncation is one of low .. high - 1.                *)
Durations == int(min_years) .. (int(max_years) - 1)

(* Line 107: returns[i % len(returns)] (0-based i). *)
ReturnAt(i) == returns[(i % Len(returns)) + 1]

InflAtShifted(i) == infl_rate[((i + 1) % Len(infl_rate)) + 1]
(* Line 108: infl_rate[i % len(infl_rate)] (0-based i). *)
InflAt(i) == infl_rate[(i % Len(infl_rate)) + 1]

(* Lines 114-117: the amount withdrawn in the year at position idx. *)
WithdrawalForYear(idx, prev, infl) ==
    IF idx = 0 THEN int(withdrawal)
    ELSE Trunc(prev * (RateDen + infl), RateDen)

GrowThenWithdraw(inv, w, ret) == Trunc(inv * (RateDen + ret), RateDen) - w
(* Lines 119-120: withdraw, then grow and truncate. *)
ApplyYear(inv, w, ret) == Trunc((inv - w) * (RateDen + ret), RateDen)

IsBankruptStrict(inv) == inv < 0
(* Line 122: if investments <= 0. *)
IsBankrupt(inv) == inv <= 0

OutcomeRaw(b, inv) == inv
(* Lines 126-130: what a run appends to outcome. *)
Outcome(b, inv) == IF b = "yes" THEN 0 ELSE inv

(* Line 140, in tenths of a percent: round(100 * bankrupt_count / total, 1). *)
(* A tie needs total to be a multiple of 16, beyond the runs explored.      *)
Odds(count, total) == (2000 * count + total) \div (2 * total)

AverageUndivided(out) == Sum(out)
(* Line 148: int(sum(outcome) / total). *)
Average(out) == Trunc(Sum(out), Len(out))

(***************************************************************************)
(* Initial state: the inputs collected, no function called yet.            *)
(***************************************************************************)
Init ==
    /\ \E p \in Inputs :
        /\ start_value = p.start_value
        /\ withdrawal = p.withdrawal
        /\ min_years = p.min_years
        /\ most_likely_years = p.most_likely_years
        /\ max_years = p.max_years
        /\ num_sim = p.num_sim
        /\ returns = p.returns
        /\ infl_rate = p.infl_rate
    /\ pc = "validate"
    /\ sim_count = 0
    /\ bankrupt_count = 0
    /\ outcome = <<>>
    /\ investments = 0
    /\ start_year = 0
    /\ duration = 0
    /\ lifespan_returns = <<>>
    /\ lifespan_infl = <<>>
    /\ index = 0
    /\ withdrawal_infl = 0
    /\ bankrupt = "no"
    /\ draws = <<>>
    /\ odds = 0
    /\ average = 0
    /\ minimum = 0
    /\ maximum = 0

(***************************************************************************)
(* Actions.                                                                *)
(***************************************************************************)
(* Lines 77-81: illogical years, sys.exit(1). *)
RejectYears ==
    /\ pc = "validate"
    /\ ~YearsOk
    /\ pc' = "exit"
    /\ UNCHANGED <<inputs, sim_count, bankrupt_count, outcome, run, draws, stats>>

(* Lines 82-85: withdrawal not below the starting value, sys.exit(1). *)
RejectWithdrawal ==
    /\ pc = "validate"
    /\ YearsOk
    /\ ~WithdrawalOk
    /\ pc' = "exit"
    /\ UNCHANGED <<inputs, sim_count, bankrupt_count, outcome, run, draws, stats>>

(* Validation passed; main() calls simulator, lines 157 and 90-92. *)
EnterSimulator ==
    /\ pc = "validate"
    /\ YearsOk
    /\ WithdrawalOk
    /\ sim_count' = 0
    /\ bankrupt_count' = 0
    /\ outcome' = <<>>
    /\ pc' = "while"
    /\ UNCHANGED <<inputs, run, draws, stats>>

(* Lines 94-108: the loop test holds; the run's draws and its two lists. *)
RunStart ==
    /\ pc = "while"
    /\ LoopGuard
    /\ \E sy \in 0..(Len(returns) - 1), d \in Durations :
        /\ start_year' = sy
        /\ duration' = d
        /\ draws' = Append(draws, <<sy, d>>)
        /\ lifespan_returns' = [k \in 1..d |-> ReturnAt(sy + k - 1)]
        /\ lifespan_infl' = [k \in 1..d |-> InflAt(sy + k - 1)]
    /\ investments' = StartInvestments
    /\ bankrupt' = "no"
    /\ index' = 0
    /\ pc' = "years"
    /\ UNCHANGED <<inputs, sim_count, bankrupt_count, outcome, withdrawal_infl,
                   stats>>

(* Lines 111-124: one year of the run; index counts the years processed. *)
Year ==
    /\ pc = "years"
    /\ index < Len(lifespan_returns)
    /\ LET infl == lifespan_infl[index + 1]
           w == WithdrawalForYear(index, withdrawal_infl, infl)
           inv == ApplyYear(investments, w, lifespan_returns[index + 1])
       IN /\ withdrawal_infl' = w
          /\ investments' = inv
          /\ index' = index + 1
          /\ IF IsBankrupt(inv)
             THEN bankrupt' = "yes" /\ pc' = "append"
             ELSE bankrupt' = bankrupt /\ pc' = "years"
    /\ UNCHANGED <<inputs, sim_count, bankrupt_count, outcome, start_year,
                   duration, lifespan_returns, lifespan_infl, draws, stats>>

(* Line 111: the for loop has no year left. *)
YearsDone ==
    /\ pc = "years"
    /\ index = Len(lifespan_returns)
    /\ pc' = "append"
    /\ UNCHANGED <<inputs, sim_count, bankrupt_count, outcome, run, draws, stats>>

(* Lines 126-132: the run's outcome is appended and counted. *)
RunEnd ==
    /\ pc = "append"
    /\ outcome' = Append(outcome, Outcome(bankrupt, investments))
    /\ bankrupt_count' = IF bankrupt = "yes" THEN bankrupt_count + 1
                         ELSE bankrupt_count
    /\ sim_count' = sim_count + 1
    /\ pc' = "while"
    /\ UNCHANGED <<inputs, run, draws, stats>>

(* Lines 94 and 134: the loop test fails, simulator returns to main. *)
Return ==
    /\ pc = "while"
    /\ ~LoopGuard
    /\ pc' = "returned"
    /\ UNCHANGED <<inputs, sim_count, bankrupt_count, outcome, run, draws, stats>>

(* Lines 137-152: bankrupt_prob on a non-empty outcome. *)
BankruptProb ==
    /\ pc = "returned"
    /\ Len(outcome) # 0
    /\ odds' = Odds(bankrupt_count, Len(outcome))
    /\ average' = Average(outcome)
    /\ minimum' = Min(outcome)
    /\ maximum' = Max(outcome)
    /\ pc' = "done"
    /\ UNCHANGED <<inputs, sim_count, bankrupt_count, outcome, run, draws>>

(* Lines 139-140: total = 0, the division raises ZeroDivisionError. *)
BankruptProbDivZero ==
    /\ pc = "returned"
    /\ Len(outcome) = 0
    /\ pc' = "ZeroDivisionError"
    /\ UNCHANGED <<inputs, sim_count, bankrupt_count, outcome, run, draws, stats>>

Next ==
    \/ RejectYears
    \/ RejectWithdrawal
    \/ EnterSimulator
    \/ RunStart
    \/ Year
    \/ YearsDone
    \/ RunEnd
    \/ Return
    \/ BankruptProb
    \/ BankruptProbDivZero

Spec == Init /\ [][Next]_vars

(***************************************************************************)
(* Reference computations, written from the series and the inputs alone.   *)
(***************************************************************************)
RECURSIVE RefYears(_, _, _, _, _)
(* <<portfolio, withdrawal>> after k years of a run started at offset s,   *)
(* given the pair after j <= k years: each year withdraws the year's       *)
(* amount, then grows what is left.  Each year's pair is computed before   *)
(* the next year is entered.                                               *)
RefYears(s, k, j, inv, w) ==
    IF j = k THEN <<inv, w>>
    ELSE LET infl == infl_rate[((s + j) % Len(infl_rate)) + 1]
             ret == returns[((s + j) % Len(returns)) + 1]
             wj == IF j = 0 THEN int(withdrawal)
                   ELSE Trunc(w * (RateDen + infl), RateDen)
             nv == Trunc((inv - wj) * (RateDen + ret), RateDen)
         IN IF nv \in Int /\ wj \in Int
            THEN RefYears(s, k, j + 1, nv, wj)
            ELSE <<inv, w>>

(* The portfolio after k years of a run started at offset s. *)
RefPortfolio(s, k) == RefYears(s, k, 0, int(start_value), 0)[1]

(* The amount withdrawn in year k (0-based) of a run started at offset s. *)
RefWithdrawal(s, k) == RefYears(s, k + 1, 0, int(start_value), 0)[2]

RECURSIVE RefRun(_, _, _, _, _)
(* <<bankrupt, outcome>> of a run of d years from offset s, about to process *)
(* year k with portfolio inv and previous withdrawal w.                      *)
RefRun(s, d, k, inv, w) ==
    IF k = d THEN <<"no", inv>>
    ELSE LET wk == IF k = 0 THEN int(withdrawal)
                   ELSE Trunc(w * (RateDen + infl_rate[((s + k) % Len(infl_rate)) + 1]),
                              RateDen)
             nv == Trunc((inv - wk) * (RateDen + returns[((s + k) % Len(returns)) + 1]),
                         RateDen)
         IN IF nv <= 0 THEN <<"yes", 0>> ELSE RefRun(s, d, k + 1, nv, wk)

RefOf(draw) == RefRun(draw[1], draw[2], 0, int(start_value), 0)

InSimulator == pc \in {"while", "years", "append"}
Returned == pc \in {"returned", "done", "ZeroDivisionError"}
InRun == pc \in {"years", "append"}
ZeroEntries(out) == {k \in 1..Len(out) : out[k] = 0}
Abs(x) == IF x >= 0 THEN x ELSE -x

TypeOK ==
    /\ \A s \in {start_value, withdrawal, min_years, most_likely_years,
                 max_years, num_sim} : IsDigit(s)
    /\ Len(returns) > 0 /\ Len(infl_rate) > 0

(***************************************************************************)
(* Claims.                                                                 *)
(***************************************************************************)

(* C1: when simulator has returned, outcome holds exactly num_sim entries  *)
(* and 0 <= bankrupt_count <= num_sim; while it runs, every finished run   *)
(* has appended exactly one entry and raised the counter at most once.     *)
C1_LengthAndCount ==
    /\ (InSimulator \/ Returned) =>
          /\ Len(outcome) = sim_count
          /\ 0 <= bankrupt_count /\ bankrupt_count <= sim_count
          /\ Len(draws) = sim_count + (IF InRun THEN 1 ELSE 0)
    /\ Returned =>
          /\ Len(outcome) = int(num_sim)
          /\ 0 <= bankrupt_count /\ bankrupt_count <= int(num_sim)

C1_Witness ==
    pc = "returned" /\ Len(outcome) = 2 /\ bankrupt_count = 1

(* C2: every entry of outcome is 0 or greater than 0; a run marked         *)
(* bankrupt, whatever its portfolio, is reported as 0, and a run not       *)
(* marked bankrupt is reported with a portfolio that is not negative.      *)
C2_OutcomeZeroOrPositive ==
    /\ \A k \in 1..Len(outcome) : outcome[k] = 0 \/ outcome[k] > 0
    /\ (pc = "append" /\ bankrupt = "no") => investments >= 0
    /\ (pc = "while" /\ Len(outcome) > 0) =>
          outcome[Len(outcome)] = (IF bankrupt = "yes" THEN 0 ELSE investments)

C2_Witness ==
    /\ pc = "while" /\ Len(outcome) > 0
    /\ bankrupt = "yes" /\ investments < 0
    /\ outcome[Len(outcome)] = 0

(* C3: with num_sim = 0 the program is stopped before aggregation: it      *)
(* neither divides by the length of an empty outcome nor finishes          *)
(* bankrupt_prob.                                                          *)
C3_ZeroRunsRejected ==
    int(num_sim) = 0 => pc \notin {"ZeroDivisionError", "done"}

(* C4: simulator is entered only when                                      *)
(* min_years < most_likely_years < max_years < 99.                         *)
C4_SimulatorOnlyBelowLimit ==
    (InSimulator \/ Returned) =>
        /\ int(min_years) < int(most_likely_years)
        /\ int(most_likely_years) < int(max_years)
        /\ int(max_years) < 99

(* C5: the outcome sequence and the bankrupt count are a function of the   *)
(* inputs, the series and the stream of draws alone: entry k is what a     *)
(* fresh run on draw k yields, whatever the runs before it left behind.    *)
C5_Determinism ==
    (InSimulator \/ Returned) =>
        /\ \A k \in 1..Len(outcome) : outcome[k] = RefOf(draws[k])[2]
        /\ bankrupt_count =
              Cardinality({k \in 1..Len(outcome) : RefOf(draws[k])[1] = "yes"})

C5_Witness ==
    /\ pc = "returned" /\ Len(outcome) = 2
    /\ draws[1][2] > 0 /\ draws[2][2] > 0
    /\ outcome[1] = 0 /\ outcome[2] > 0

(* C6: after bankrupt_prob, odds is 100 * bankrupt_count / len(outcome)    *)
(* rounded to one decimal and lies in 0.0 .. 100.0, the average is the     *)
(* truncated mean, and minimum <= average <= maximum.                      *)
C6_Aggregation ==
    pc = "done" =>
        LET total == Len(outcome) IN
        /\ 0 <= odds /\ odds <= 1000
        /\ 2 * Abs(odds * total - 1000 * bankrupt_count) <= total
        /\ average * total <= Sum(outcome)
        /\ Sum(outcome) < (average + 1) * total
        /\ \A k \in 1..total : minimum <= outcome[k] /\ outcome[k] <= maximum
        /\ \E k \in 1..total : minimum = outcome[k]
        /\ \E k \in 1..total : maximum = outcome[k]
        /\ minimum <= average /\ average <= maximum

C6_Witness ==
    /\ pc = "done" /\ Len(outcome) = 2 /\ bankrupt_count = 1
    /\ odds = 500 /\ minimum < average /\ average < maximum

(* C7: a year is processed only while the portfolio is above 0; the year   *)
(* that leaves it at 0 or below marks the run bankrupt and ends the run,   *)
(* no later year touches the portfolio, and the run is reported as 0.      *)
C7_StopAtBankruptcy ==
    [][ /\ (pc = "years" /\ index' = index + 1 /\ index > 0) => investments > 0
        /\ (pc = "years" /\ index' = index + 1 /\ investments' <= 0) =>
              bankrupt' = "yes" /\ pc' = "append"
        /\ (pc = "append" /\ bankrupt = "yes") =>
              /\ investments <= 0
              /\ investments' = investments /\ index' = index
              /\ outcome' = Append(outcome, 0)
        /\ (bankrupt = "yes" /\ bankrupt' = "yes") =>
              investments' = investments /\ withdrawal_infl' = withdrawal_infl
      ]_vars

(* A bankrupt run with years left whose next year would lift the portfolio *)
(* above 0 again. *)
C7_Witness ==
    /\ pc = "append" /\ bankrupt = "yes"
    /\ index < Len(lifespan_returns)
    /\ Trunc((investments
                - Trunc(withdrawal_infl * (RateDen + lifespan_infl[index + 1]), RateDen))
             * (RateDen + lifespan_returns[index + 1]), RateDen) > 0

(* C8: within a run the portfolio after k years is: withdraw the year's    *)
(* amount (the base withdrawal in year 0, else the previous amount times   *)
(* 1 + inflation, truncated), then multiply by 1 + return and truncate.    *)
(* With 10% returns, no inflation, 100000 invested, 1000 withdrawn and 5   *)
(* years from offset 0 the run ends with 154334.                           *)
C8_YearOrder ==
    /\ InRun =>
          /\ investments = RefPortfolio(start_year, index)
          /\ index > 0 => withdrawal_infl = RefWithdrawal(start_year, index - 1)
    /\ ( /\ int(start_value) = 100000 /\ int(withdrawal) = 1000
         /\ \A k \in 1..Len(returns) : returns[k] = 10
         /\ \A k \in 1..Len(infl_rate) : infl_rate[k] = 0
         /\ pc = "append" /\ start_year = 0 /\ duration = 5 )
       => (bankrupt = "no" /\ investments = 154334)

C8_Witness ==
    /\ int(start_value) = 100000 /\ int(withdrawal) = 1000
    /\ \A k \in 1..Len(returns) : returns[k] = 10
    /\ \A k \in 1..Len(infl_rate) : infl_rate[k] = 0
    /\ pc = "append" /\ start_year = 0 /\ duration = 5 /\ index = 5

(* C9: the k-th year of a run uses returns[(start_year + k) mod N] and     *)
(* infl_rate[(start_year + k) mod M], each series wrapping on its own      *)
(* length, for k = 0, 1, ... in order.                                     *)
C9_CyclicIndexing ==
    [][ (pc = "years" /\ index' = index + 1) =>
          LET ret == returns[((start_year + index) % Len(returns)) + 1]
              infl == infl_rate[((start_year + index) % Len(infl_rate)) + 1]
          IN /\ start_year \in 0..(Len(returns) - 1)
             /\ index < duration
             /\ withdrawal_infl' =
                   (IF index = 0 THEN int(withdrawal)
                    ELSE Trunc(withdrawal_infl * (RateDen + infl), RateDen))
             /\ investments' =
                   Trunc((investments - withdrawal_infl') * (RateDen + ret), RateDen)
      ]_vars

C9_Witness ==
    /\ InRun /\ index >= 2
    /\ Len(returns) # Len(infl_rate)
    /\ start_year + index - 1 >= Len(returns)
    /\ start_year + index - 1 >= Len(infl_rate)

(* C10: bankrupt_count is the number of entries of outcome that are 0: a   *)
(* run not marked bankrupt, a run of 0 years included, reports a value     *)
(* above 0.                                                                *)
C10_CountMatchesZeroEntries ==
    /\ (InSimulator \/ Returned) =>
          bankrupt_count = Cardinality(ZeroEntries(outcome))
    /\ (pc = "append" /\ bankrupt = "no") => investments > 0
    /\ \A k \in 1..Len(outcome) :
          draws[k][2] = 0 => outcome[k] = int(start_value)

C10_Witness ==
    /\ pc = "returned" /\ Len(outcome) = 2 /\ bankrupt_count = 1
    /\ \E k \in 1..2 : draws[k][2] = 0 /\ outcome[k] = int(start_value)

====
